---- MODULE Spec2Model ----
(***************************************************************************)
(* Model of package mw, file jwt_hs256.go: the JwtHS256 middleware, the    *)
(* Bearer token locator and the GetClaimsFromContext accessor.             *)
(*                                                                         *)
(* Strings that may carry a token are records [kind, hdr, payload, sig]:   *)
(* kind "empty" is the empty string, kind "opaque" a string that is not    *)
(* three dot-separated segments, kind "jwt" a compact token.  A signature  *)
(* segment is the MAC [over, by] of the content it was computed over and   *)
(* the key it was computed with (an ideal MAC: equal only when both are).  *)
(***************************************************************************)
EXTENDS Integers, Sequences, FiniteSets, TLC

VARIABLES
    secret,        \* the secret captured by the middleware closure
    req,           \* req[r]: the *http.Request of request r
    pc,            \* pc[r]: position of request r's handler goroutine
    bearer,        \* bearer[r]: local variable bearer of the handler
    inst,          \* inst[r]: the Claims instance cf() returned to the handler
    tok,           \* tok[r]: result of jwt.ParseWithClaims (token.Valid, err)
    heap,          \* heap[i]: content of Claims instance i
    factoryCalls,  \* factoryCalls[r]: calls of cf() made for request r
    keyHanded,     \* keyHanded[r]: the key function returned []byte(secret)
    resp,          \* resp[r]: what was written to the ResponseWriter
    nextCalls,     \* nextCalls[r]: calls of next.ServeHTTP made for request r
    nextCtx,       \* nextCtx[r]: context of the request handed to next
    probe          \* a context and the result of GetClaimsFromContext on it

vars == <<secret, req, pc, bearer, inst, tok, heap, factoryCalls, keyHanded,
          resp, nextCalls, nextCtx, probe>>

---------------------------------------------------------------------------
(* Bounds *)

MaxQuery == 2    \* repeated Authorization query parameters
MaxForm == 2     \* repeated Authorization form fields
MaxCtx == 2      \* context.WithValue layers of a probed context
NumReqs == 2     \* concurrent requests through one gate

---------------------------------------------------------------------------
(* Constants of the program *)

jwtAuthKey == "Authorization"

claimsKey == [pkg |-> "mw", type |-> "claimsKey"]

StatusUnauthorized == 401

StatusForbidden == 403

Nil == 0

---------------------------------------------------------------------------
(* Strings, tokens and claims *)

Keys == {"k1", "k2"}

HMACFamily == {"HS256", "HS384"}

RegisteredMethods == HMACFamily \cup {"RS256", "none"}

BadSegment == "%"

Headers == RegisteredMethods \cup {"XX", BadSegment}

ClaimSets == [sub : {"a", "b"}, exp : {"future", "past"}]

EmptyClaims == [sub |-> "", exp |-> ""]

Encode(c) == [json |-> TRUE, sub |-> c.sub, exp |-> c.exp]

BadPayload == [json |-> FALSE, sub |-> "", exp |-> ""]

Payloads == {Encode(c) : c \in ClaimSets} \cup {BadPayload}

Tamper(p) == IF p.json THEN [p EXCEPT !.sub = IF p.sub = "a" THEN "b" ELSE "a"]
             ELSE Encode([sub |-> "a", exp |-> "future"])

HMAC(content, key) == [over |-> content, by |-> key]

Junk == [over |-> <<>>, by |-> ""]

SigsFor(h, p) ==
    {HMAC(<<h, p>>, k) : k \in Keys}
        \cup {HMAC(<<h, Tamper(p)>>, k) : k \in Keys} \cup {Junk}

EmptyStr == [kind |-> "empty", hdr |-> "", payload |-> BadPayload, sig |-> Junk]

Opaque == [kind |-> "opaque", hdr |-> "", payload |-> BadPayload, sig |-> Junk]

Jwt(h, p, s) == [kind |-> "jwt", hdr |-> h, payload |-> p, sig |-> s]

Tokens ==
    {Opaque} \cup
    UNION {UNION {{Jwt(h, p, s) : s \in SigsFor(h, p)} : p \in Payloads} : h \in Headers}

Signed(c, k) == Jwt("HS256", Encode(c), HMAC(<<"HS256", Encode(c)>>, k))

---------------------------------------------------------------------------
(* github.com/dgrijalva/jwt-go as the handler uses it.  An error is its     *)
(* message; "" is the nil error.                                            *)

NoError == ""

NoKey == ""

\* Claims.Valid of the caller's claim structure: the standard expiry check.
Valid(c) == IF c.exp = "past" THEN "token is expired" ELSE NoError

\* Fault: a key function that hands the secret out whatever the method.
KeyFuncNoCheck(method, sec) == [key |-> sec, err |-> NoError]

\* The key function the handler passes to jwt.ParseWithClaims.
KeyFunc(method, sec) ==
    IF method \in HMACFamily
    THEN [key |-> sec, err |-> NoError]
    ELSE [key |-> NoKey, err |-> "unexpected signing method: " \o method]

\* SigningMethod.Verify of the method the token's header names, given a
\* []byte key.
Verify(method, content, sig, key) ==
    IF method \in HMACFamily
    THEN IF sig = HMAC(content, key) THEN NoError ELSE "signature is invalid"
    ELSE IF method = "none" THEN "'none' signature type is not allowed"
    ELSE "key is of invalid type"

\* Parser.ParseUnverified: split, decode the header, decode the payload into
\* the claims instance, look the signing method up.
ParseUnverified(t) ==
    IF t.kind # "jwt"
    THEN [err |-> "token contains an invalid number of segments", decoded |-> FALSE]
    ELSE IF t.hdr = BadSegment
    THEN [err |-> "illegal base64 data at input byte 0", decoded |-> FALSE]
    ELSE IF ~t.payload.json
    THEN [err |-> "unexpected end of JSON input", decoded |-> FALSE]
    ELSE IF t.hdr \notin RegisteredMethods
    THEN [err |-> "signing method (alg) is unavailable.", decoded |-> TRUE]
    ELSE [err |-> NoError, decoded |-> TRUE]

Decode(p) == [sub |-> p.sub, exp |-> p.exp]

\* jwt.ParseWithClaims(bearer, claims, keyFunc): the error it returns,
\* token.Valid, whether the claims instance was written (and with what), and
\* whether the key function handed the secret out.  token.Valid is set only
\* on the path that returns a nil error.
ParseWithClaims(t, sec) ==
    LET u == ParseUnverified(t)
        k == KeyFunc(t.hdr, sec)
        claimsErr == Valid(Decode(t.payload))
        sigErr == Verify(t.hdr, <<t.hdr, t.payload>>, t.sig, k.key)
        vErr == IF sigErr # NoError THEN sigErr ELSE claimsErr
        written == [decoded |-> u.decoded, claims |-> Decode(t.payload)]
    IN  IF u.err # NoError
        THEN [err |-> u.err, valid |-> FALSE, keyHanded |-> FALSE] @@ written
        ELSE IF k.err # NoError
        THEN [err |-> k.err, valid |-> FALSE, keyHanded |-> FALSE] @@ written
        ELSE [err |-> vErr, valid |-> (vErr = NoError), keyHanded |-> TRUE] @@ written

---------------------------------------------------------------------------
(* net/http request forms and the token locator *)

FormKeys == {jwtAuthKey, "other"}

EmptyValues == [k \in FormKeys |-> <<>>]

NoBody == [form |-> FALSE, malformed |-> FALSE, auth |-> <<>>, other |-> <<>>]

\* r.URL.Query()
URLQuery(rq) == [k \in FormKeys |-> IF k = jwtAuthKey THEN rq.Query ELSE <<>>]

\* r.ParseForm(): fills r.PostForm from a form-encoded body and r.Form from
\* the body followed by the URL query, once; reports a malformed body.
ParseForm(rq) ==
    IF rq.parsed
    THEN [req |-> rq, err |-> FALSE]
    ELSE LET post == IF rq.Body.form
                     THEN [k \in FormKeys |->
                              IF k = jwtAuthKey THEN rq.Body.auth ELSE rq.Body.other]
                     ELSE EmptyValues
             form == [k \in FormKeys |-> post[k] \o URLQuery(rq)[k]]
         IN  [req |-> [rq EXCEPT !.parsed = TRUE, !.PostForm = post, !.Form = form],
              err |-> rq.Body.form /\ rq.Body.malformed]

\* r.FormValue(key) on a request whose form is parsed: the first value.
FormValue(rq, key) ==
    LET f == ParseForm(rq).req.Form
    IN  IF Len(f[key]) > 0 THEN f[key][1] ELSE EmptyStr

\* r.PostFormValue(key)
PostFormValue(rq, key) ==
    LET f == ParseForm(rq).req.PostForm
    IN  IF Len(f[key]) > 0 THEN f[key][1] ELSE EmptyStr

\* Fault: the first query value taken as it is (r.URL.Query().Get).
FirstValue(vs) == IF Len(vs) > 0 THEN vs[1] ELSE EmptyStr

\* The loop over the query values: the first non-empty one, if any.
FirstNonEmpty(vs) ==
    LET idx == {i \in 1..Len(vs) : vs[i] # EmptyStr}
    IN  IF idx = {} THEN EmptyStr
        ELSE vs[CHOOSE i \in idx : \A j \in idx : i <= j]

Found(b, rq) == [bearer |-> b, ok |-> TRUE, req |-> rq]

\* Fault: return "", true.
NotFoundAsFound(rq) == [bearer |-> EmptyStr, ok |-> TRUE, req |-> rq]

NotFound(rq) == [bearer |-> EmptyStr, ok |-> FALSE, req |-> rq]

\* Fault: the URL query consulted before the header.
BearerQueryFirst(rq) ==
    IF FirstNonEmpty(URLQuery(rq)[jwtAuthKey]) # EmptyStr
    THEN Found(FirstNonEmpty(URLQuery(rq)[jwtAuthKey]), rq)
    ELSE IF rq.Header # EmptyStr
    THEN Found(rq.Header, rq)
    ELSE [bearer |-> EmptyStr, ok |-> FALSE, req |-> rq]

\* Bearer(r): the token and whether one was found, with the request as the
\* call leaves it.
Bearer(rq) ==
    IF rq.Header # EmptyStr
    THEN Found(rq.Header, rq)
    ELSE IF FirstNonEmpty(URLQuery(rq)[jwtAuthKey]) # EmptyStr
    THEN Found(FirstNonEmpty(URLQuery(rq)[jwtAuthKey]), rq)
    ELSE LET pf == ParseForm(rq)
         IN  IF pf.err
             THEN NotFound(pf.req)
             ELSE IF FormValue(pf.req, jwtAuthKey) # EmptyStr
             THEN Found(FormValue(pf.req, jwtAuthKey),
                        [pf.req EXCEPT !.PostForm[jwtAuthKey] = <<>>])
             ELSE NotFound(pf.req)

---------------------------------------------------------------------------
(* context.Context: the chain of WithValue layers, innermost last *)

StringKey == [pkg |-> "string", type |-> "claimsKey"]

AppKey == [pkg |-> "app", type |-> "claimsKey"]

CtxKeys == {claimsKey, StringKey, AppKey}

ClaimsValue(i) == [kind |-> "Claims", ref |-> i]

NoValue == [kind |-> "nil", ref |-> Nil]

OtherValue == [kind |-> "string", ref |-> Nil]

WithValue(ctx, k, v) == Append(ctx, [key |-> k, val |-> v])

\* ctx.Value(k): the innermost layer stored under k, nil when there is none.
Value(ctx, k) ==
    LET idx == {i \in 1..Len(ctx) : ctx[i].key = k}
    IN  IF idx = {} THEN NoValue
        ELSE ctx[CHOOSE i \in idx : \A j \in idx : j <= i].val

\* Fault: the claims looked up under a string key, which other code can use.
GetClaimsFromStringKey(ctx) ==
    LET v == Value(ctx, StringKey)
    IN  IF v.kind = "Claims" THEN v.ref ELSE Nil

\* GetClaimsFromContext: the comma-ok type assertion to Claims.
GetClaimsFromContext(ctx) ==
    LET v == Value(ctx, claimsKey)
    IN  IF v.kind = "Claims" THEN v.ref ELSE Nil

---------------------------------------------------------------------------
(* Requests and the inputs the specifications draw from *)

SeqUpTo(S, n) == UNION {[1..k -> S] : k \in 0..n}

NewRequest(h, q, b, c) ==
    [Header |-> h, Query |-> q, Body |-> b, parsed |-> FALSE,
     Form |-> EmptyValues, PostForm |-> EmptyValues, ctx |-> c]

FormBody(a, m) == [form |-> TRUE, malformed |-> m, auth |-> a, other |-> <<Opaque>>]

\* A Claims instance that exists before any request: other code's.
ForeignClaims == [sub |-> "z", exp |-> "future"]

BaseCtxs ==
    {<<>>,
     <<[key |-> AppKey, val |-> ClaimsValue(1)]>>,
     <<[key |-> claimsKey, val |-> ClaimsValue(1)]>>}

\* One candidate string, any token or none, in one of the three places.
GateInputs ==
    UNION {{NewRequest(t, <<>>, NoBody, c),
            NewRequest(EmptyStr, <<t>>, NoBody, c),
            NewRequest(EmptyStr, <<>>, FormBody(<<t>>, FALSE), c)} :
           t \in Tokens \cup {EmptyStr}, c \in BaseCtxs}

Strs ==
    {EmptyStr,
     Signed([sub |-> "a", exp |-> "future"], "k1"),
     Signed([sub |-> "b", exp |-> "future"], "k1"),
     Signed([sub |-> "a", exp |-> "future"], "k2")}

\* Every combination of a few strings over the three places.
LocatorInputs ==
    {NewRequest(h, q, b, <<>>) :
        h \in Strs, q \in SeqUpTo(Strs, MaxQuery),
        b \in {NoBody} \cup
              {FormBody(a, m) : a \in SeqUpTo(Strs, MaxForm), m \in BOOLEAN}}

ConcInputs == {NewRequest(h, <<>>, NoBody, <<>>) : h \in Strs}

ProbeCtxs ==
    SeqUpTo([key : CtxKeys, val : {ClaimsValue(1), OtherValue, NoValue}], MaxCtx)

NoResponse == [code |-> 0, error |-> ""]

NoToken == [err |-> NoError, valid |-> FALSE, claims |-> Nil]

InitGate(R, inputs, probes) ==
    /\ secret \in Keys
    /\ req \in [R -> inputs]
    /\ pc = [r \in R |-> "start"]
    /\ bearer = [r \in R |-> EmptyStr]
    /\ inst = [r \in R |-> Nil]
    /\ tok = [r \in R |-> NoToken]
    /\ heap = <<ForeignClaims>>
    /\ factoryCalls = [r \in R |-> 0]
    /\ keyHanded = [r \in R |-> FALSE]
    /\ resp = [r \in R |-> NoResponse]
    /\ nextCalls = [r \in R |-> 0]
    /\ nextCtx = [r \in R |-> <<>>]
    /\ probe \in [ctx : probes, result : {Nil}, called : {FALSE}]

---------------------------------------------------------------------------
(* The handler JwtHS256(secret, cf)(next), one action per step *)

\* http.Error(w, error, code): the message is written as one line.
Error(error, code) == [code |-> code, error |-> error]

\* bearer, ok := Bearer(r); if !ok { http.Error(...401); return }
Locate(r) ==
    /\ pc[r] = "start"
    /\ LET b == Bearer(req[r])
       IN  /\ req' = [req EXCEPT ![r] = b.req]
           /\ bearer' = [bearer EXCEPT ![r] = b.bearer]
           /\ IF b.ok
              THEN /\ pc' = [pc EXCEPT ![r] = "located"]
                   /\ resp' = resp
              ELSE /\ pc' = [pc EXCEPT ![r] = "done"]
                   /\ resp' = [resp EXCEPT ![r] =
                         Error("no JSON web token in request", StatusUnauthorized)]
    /\ UNCHANGED <<secret, inst, tok, heap, factoryCalls, keyHanded, nextCalls,
                   nextCtx, probe>>

\* Fault: cf() called once and its instance kept for every request.
CreateHoisted(r) ==
    /\ pc[r] = "located"
    /\ heap' = IF Len(heap) = 1 THEN Append(heap, EmptyClaims) ELSE heap
    /\ inst' = [inst EXCEPT ![r] = 2]
    /\ factoryCalls' = [factoryCalls EXCEPT ![r] = @ + 1]
    /\ pc' = [pc EXCEPT ![r] = "created"]
    /\ UNCHANGED <<secret, req, bearer, tok, keyHanded, resp, nextCalls, nextCtx,
                   probe>>

\* cf(): the factory returns a new, empty Claims instance.
Create(r) ==
    /\ pc[r] = "located"
    /\ heap' = Append(heap, EmptyClaims)
    /\ inst' = [inst EXCEPT ![r] = Len(heap) + 1]
    /\ factoryCalls' = [factoryCalls EXCEPT ![r] = @ + 1]
    /\ pc' = [pc EXCEPT ![r] = "created"]
    /\ UNCHANGED <<secret, req, bearer, tok, keyHanded, resp, nextCalls, nextCtx,
                   probe>>

\* token, err := jwt.ParseWithClaims(bearer, <instance>, keyFunc)
Parse(r) ==
    /\ pc[r] = "created"
    /\ LET p == ParseWithClaims(bearer[r], secret)
       IN  /\ heap' = IF p.decoded THEN [heap EXCEPT ![inst[r]] = p.claims] ELSE heap
           /\ tok' = [tok EXCEPT ![r] =
                         [err |-> p.err, valid |-> p.valid, claims |-> inst[r]]]
           /\ keyHanded' = [keyHanded EXCEPT ![r] = p.keyHanded]
    /\ pc' = [pc EXCEPT ![r] = "parsed"]
    /\ UNCHANGED <<secret, req, bearer, inst, factoryCalls, resp, nextCalls,
                   nextCtx, probe>>

\* Fault: the error of jwt.ParseWithClaims not looked at.
ParseFailedIgnored(t) == FALSE

\* if err != nil
ParseFailed(t) == t.err # NoError

\* Fault: the claims stored under a string key.
AttachUnderStringKey(ctx, c) == WithValue(ctx, StringKey, ClaimsValue(c))

\* context.WithValue(r.Context(), claimsKey{}, token.Claims)
Attach(ctx, c) == WithValue(ctx, claimsKey, ClaimsValue(c))

\* if err != nil {403 err.Error()}; if !token.Valid {403 "token is invalid"};
\* next.ServeHTTP(w, r.WithContext(context.WithValue(r.Context(), claimsKey{},
\* token.Claims)))
Respond(r) ==
    /\ pc[r] = "parsed"
    /\ IF ParseFailed(tok[r])
       THEN /\ resp' = [resp EXCEPT ![r] = Error(tok[r].err, StatusForbidden)]
            /\ UNCHANGED <<nextCalls, nextCtx>>
       ELSE IF ~tok[r].valid
       THEN /\ resp' = [resp EXCEPT ![r] = Error("token is invalid", StatusForbidden)]
            /\ UNCHANGED <<nextCalls, nextCtx>>
       ELSE /\ nextCalls' = [nextCalls EXCEPT ![r] = @ + 1]
            /\ nextCtx' = [nextCtx EXCEPT ![r] =
                  Attach(req[r].ctx, tok[r].claims)]
            /\ resp' = resp
    /\ pc' = [pc EXCEPT ![r] = "done"]
    /\ UNCHANGED <<secret, req, bearer, inst, tok, heap, factoryCalls, keyHanded,
                   probe>>

\* A handler that did not pass through the gate calls GetClaimsFromContext.
Access ==
    /\ ~probe.called
    /\ probe' = [probe EXCEPT !.result = GetClaimsFromContext(probe.ctx),
                              !.called = TRUE]
    /\ UNCHANGED <<secret, req, pc, bearer, inst, tok, heap, factoryCalls,
                   keyHanded, resp, nextCalls, nextCtx>>

---------------------------------------------------------------------------
(* Specifications *)

\* One request at a time through the gate.
Init == InitGate({1}, GateInputs \cup LocatorInputs, {<<>>})

Next ==
    \/ \E r \in DOMAIN pc : Locate(r)
    \/ \E r \in DOMAIN pc : Create(r)
    \/ \E r \in DOMAIN pc : Parse(r)
    \/ \E r \in DOMAIN pc : Respond(r)

Spec == Init /\ [][Next]_vars

\* NumReqs requests in flight at once, their handlers interleaved.
InitConc == InitGate(1..NumReqs, ConcInputs, {<<>>})

SpecConc == InitConc /\ [][Next]_vars

\* The accessor on contexts built without the gate.
InitAccessor == InitGate({1}, {NewRequest(EmptyStr, <<>>, NoBody, <<>>)}, ProbeCtxs)

NextAccessor == Access

SpecAccessor == InitAccessor /\ [][NextAccessor]_vars

---------------------------------------------------------------------------
(* Properties *)

Reqs == DOMAIN pc

Range(f) == {f[i] : i \in DOMAIN f}

\* t is a compact token of the HMAC family whose signature is the MAC of
\* its own header and payload under sec.
WellSigned(t, sec) ==
    /\ t.kind = "jwt"
    /\ t.hdr \in HMACFamily
    /\ t.payload.json
    /\ t.sig = HMAC(<<t.hdr, t.payload>>, sec)

ClaimsOf(t) == [sub |-> t.payload.sub, exp |-> t.payload.exp]

Expired(t) == t.payload.exp = "past"

HeaderEmpty(rq) == rq.Header = EmptyStr

QueryEmpty(rq) == \A i \in DOMAIN rq.Query : rq.Query[i] = EmptyStr

BodyEmpty(rq) == \A i \in DOMAIN rq.Body.auth : rq.Body.auth[i] = EmptyStr

LocatedViaForm(r) ==
    /\ pc[r] # "start"
    /\ HeaderEmpty(req[r])
    /\ QueryEmpty(req[r])
    /\ bearer[r] # EmptyStr

\* C1: a request whose token is validly HMAC-signed with the gate's secret
\* and whose claims pass their validity check reaches next exactly once, with
\* no error response written, and GetClaimsFromContext on the context handed
\* to next returns a ClaimSet equal to the claims encoded in the token.
C1_ValidTokenReachesNext ==
    \A r \in Reqs :
        (pc[r] = "done" /\ WellSigned(bearer[r], secret) /\ ~Expired(bearer[r]))
        => /\ nextCalls[r] = 1
           /\ resp[r] = NoResponse
           /\ GetClaimsFromContext(nextCtx[r]) # Nil
           /\ heap[GetClaimsFromContext(nextCtx[r])] = ClaimsOf(bearer[r])

\* The case of C1: a valid token, found in the form body of a request whose
\* context already carries an entry under the private key, has reached next.
C1_Witness ==
    \E r \in Reqs :
        /\ pc[r] = "done"
        /\ WellSigned(bearer[r], secret)
        /\ ~Expired(bearer[r])
        /\ LocatedViaForm(r)
        /\ req[r].ctx # <<>>
        /\ nextCalls[r] = 1

\* C2: a request with no non-empty Authorization value in header, query or
\* form body is answered 401 "no JSON web token in request"; neither next
\* nor the claims factory is ever invoked for it.
C2_MissingTokenUnauthorized ==
    \A r \in Reqs :
        (HeaderEmpty(req[r]) /\ QueryEmpty(req[r]) /\ BodyEmpty(req[r]))
        => /\ nextCalls[r] = 0
           /\ factoryCalls[r] = 0
           /\ pc[r] \in {"start", "done"}
           /\ pc[r] = "done" =>
                 resp[r] = [code |-> 401, error |-> "no JSON web token in request"]

\* The case of C2: a request whose only Authorization values are empty ones,
\* in the query and in the form body, has been answered.
C2_Witness ==
    \E r \in Reqs :
        /\ pc[r] = "done"
        /\ HeaderEmpty(req[r]) /\ QueryEmpty(req[r]) /\ BodyEmpty(req[r])
        /\ Len(req[r].Query) > 0
        /\ Len(req[r].Body.auth) > 0
        /\ resp[r].code = 401

\* The token cannot pass parsing and verification: not three segments, an
\* undecodable header or payload, a method outside the HMAC family, or a
\* signature that is not the MAC of its content under sec.
Unverifiable(t, sec) ==
    \/ t.kind # "jwt"
    \/ t.hdr = BadSegment
    \/ ~t.payload.json
    \/ t.hdr \notin HMACFamily
    \/ t.sig # HMAC(<<t.hdr, t.payload>>, sec)

\* C3: a located token whose parsing or verification fails is answered 403
\* with the error's message, and next is never invoked.
C3_ParseFailureForbidden ==
    \A r \in Reqs :
        (bearer[r] # EmptyStr /\ Unverifiable(bearer[r], secret))
        => /\ nextCalls[r] = 0
           /\ pc[r] = "done" =>
                 /\ tok[r].err # NoError
                 /\ resp[r] = [code |-> 403, error |-> tok[r].err]

\* The case of C3: a token signed with another secret has been answered.
C3_Witness ==
    \E r \in Reqs, k \in Keys :
        /\ pc[r] = "done"
        /\ k # secret
        /\ WellSigned(bearer[r], k)
        /\ resp[r] = [code |-> 403, error |-> "signature is invalid"]

NonHMAC(t) == t.kind = "jwt" /\ t.hdr \in Headers \ (HMACFamily \cup {BadSegment})

\* C4: a located token whose header declares a method outside the HMAC
\* family is answered 403 and never reaches next; the secret is never handed
\* to the verifier for it, and the answer is the one every token with the
\* same header and payload gets, whatever its signature segment.
C4_AlgorithmConfusionRejected ==
    \A r \in Reqs :
        NonHMAC(bearer[r])
        => /\ nextCalls[r] = 0
           /\ ~keyHanded[r]
           /\ pc[r] = "done" =>
                 /\ resp[r].code = 403
                 /\ \A s \in SigsFor(bearer[r].hdr, bearer[r].payload) :
                       resp[r].error =
                           ParseWithClaims(
                               Jwt(bearer[r].hdr, bearer[r].payload, s), secret).err

\* The case of C4: a token declaring "none" or RS256 whose signature segment
\* is the MAC of its content under the gate's secret has been answered.
C4_Witness ==
    \E r \in Reqs :
        /\ pc[r] = "done"
        /\ NonHMAC(bearer[r])
        /\ bearer[r].hdr \in RegisteredMethods
        /\ bearer[r].payload.json
        /\ bearer[r].sig = HMAC(<<bearer[r].hdr, bearer[r].payload>>, secret)
        /\ resp[r].code = 403

\* C5: a well-formed token correctly signed with the gate's secret whose
\* claim set fails its own validity check is answered 403 with the fixed
\* body "token is invalid", and next is never invoked.
C5_InvalidClaimsFixedBody ==
    \A r \in Reqs :
        (pc[r] = "done" /\ WellSigned(bearer[r], secret) /\ Expired(bearer[r]))
        => /\ nextCalls[r] = 0
           /\ resp[r] = [code |-> 403, error |-> "token is invalid"]

\* C6: first match wins.  A non-empty header value is the token, verbatim,
\* whatever the query and the form hold; a query value is the token only
\* when the header is empty; a form value only when header and query hold
\* no non-empty value.
C6_LocatorPrecedence ==
    \A r \in Reqs :
        pc[r] # "start"
        => /\ ~HeaderEmpty(req[r]) => bearer[r] = req[r].Header
           /\ (HeaderEmpty(req[r]) /\ ~QueryEmpty(req[r]))
                 => (bearer[r] # EmptyStr /\ bearer[r] \in Range(req[r].Query))
           /\ (HeaderEmpty(req[r]) /\ QueryEmpty(req[r]) /\ bearer[r] # EmptyStr)
                 => (req[r].Body.auth # <<>> /\ bearer[r] = req[r].Body.auth[1])

\* The case of C6: three different tokens in header, query and form body,
\* and the locator has run.
C6_Witness ==
    \E r \in Reqs :
        /\ pc[r] # "start"
        /\ ~HeaderEmpty(req[r])
        /\ Len(req[r].Query) > 0 /\ Len(req[r].Body.auth) > 0
        /\ req[r].Query[1] \notin {EmptyStr, req[r].Header}
        /\ req[r].Body.auth[1] \notin {EmptyStr, req[r].Header, req[r].Query[1]}
        /\ bearer[r] = req[r].Header

\* C7: once the token was located via the form body, the Authorization field
\* is absent from the form values a downstream handler can read, and every
\* other form field keeps its values.
C7_FormTokenRemoved ==
    \A r \in Reqs :
        LocatedViaForm(r)
        => /\ PostFormValue(req[r], jwtAuthKey) = EmptyStr
           /\ FormValue(req[r], jwtAuthKey) = EmptyStr
           /\ req[r].PostForm["other"] = req[r].Body.other
           /\ req[r].Form["other"] = req[r].Body.other

\* C8: with an empty header and a repeated query parameter the token is the
\* first non-empty value in parameter order; empty values before it are
\* skipped.
C8_FirstNonEmptyQueryValue ==
    \A r \in Reqs :
        (pc[r] # "start" /\ HeaderEmpty(req[r]))
        => \A i \in DOMAIN req[r].Query :
              (/\ req[r].Query[i] # EmptyStr
               /\ \A j \in 1..(i - 1) : req[r].Query[j] = EmptyStr)
              => bearer[r] = req[r].Query[i]

\* The case of C8: the first query value is empty, a later one is not, and
\* the locator has run.
C8_Witness ==
    \E r \in Reqs :
        /\ pc[r] # "start"
        /\ HeaderEmpty(req[r])
        /\ Len(req[r].Query) >= 2
        /\ req[r].Query[1] = EmptyStr
        /\ req[r].Query[2] # EmptyStr
        /\ bearer[r] = req[r].Query[2]

\* C9: GetClaimsFromContext returns the zero ClaimSet on a context with no
\* ClaimSet under the private key (no entry, or an entry of another shape),
\* also when the innermost entry under the private key is not a ClaimSet,
\* and whatever is stored under other keys.
C9_AccessorDegradesToNil ==
    probe.called
    => /\ (\A i \in DOMAIN probe.ctx :
              probe.ctx[i].key = claimsKey => probe.ctx[i].val.kind # "Claims")
          => probe.result = Nil
       /\ (\A i \in DOMAIN probe.ctx :
              (/\ probe.ctx[i].key = claimsKey
               /\ \A j \in DOMAIN probe.ctx : j > i => probe.ctx[j].key # claimsKey)
              => probe.ctx[i].val.kind # "Claims")
          => probe.result = Nil

\* The case of C9: the accessor has run on a context that holds a ClaimSet
\* under another key and a value of another shape under the private key.
C9_Witness ==
    /\ probe.called
    /\ \E i \in DOMAIN probe.ctx :
          probe.ctx[i].key # claimsKey /\ probe.ctx[i].val.kind = "Claims"
    /\ \E i \in DOMAIN probe.ctx :
          probe.ctx[i].key = claimsKey /\ probe.ctx[i].val.kind = "string"
    /\ probe.result = Nil

Authenticated(r) == nextCalls[r] >= 1

C10_Owned ==
    \A r \in Reqs :
        Authenticated(r)
        => /\ nextCalls[r] = 1
           /\ factoryCalls[r] = 1
           /\ inst[r] # Nil
           /\ GetClaimsFromContext(nextCtx[r]) = inst[r]
           /\ heap[inst[r]] = ClaimsOf(bearer[r])
           /\ \A q \in Reqs \ {r} : inst[q] # inst[r]

C10_Frozen ==
    /\ secret' = secret
    /\ \A r \in Reqs : Authenticated(r) => heap'[inst[r]] = heap[inst[r]]

\* C10: under any interleaving of the handlers of concurrent requests, an
\* authenticated request has exactly one ClaimSet, made by exactly one
\* factory call; the ClaimSet attached to its context is that instance and
\* no other request's; the gate does not write to it after attaching it; and
\* the secret is never modified.
C10_ClaimSetPerRequest == [](C10_Owned) /\ [][C10_Frozen]_vars

\* The case of C10: two requests with different tokens are both authenticated.
C10_Witness ==
    \E r, q \in Reqs :
        /\ r # q
        /\ Authenticated(r) /\ Authenticated(q)
        /\ bearer[r] # bearer[q]

====
